---- MODULE Spec2Model ----
(***************************************************************************)
(* AA splitter (kaomita/aa-splitter, src/src/AASplitter.tsx and its        *)
(* near-duplicate revision): the validating participant form and the       *)
(* exact-match + waterfall settlement computation.                         *)
(*                                                                         *)
(* Money is counted in whole cents.  The program computes on IEEE doubles; *)
(* the model keeps the exact cent value of every double and reproduces the *)
(* three places where the binary value decides differently from the exact  *)
(* one:                                                                    *)
(*   - toFixed(2) of a residual that is a decimal tie (x.xx5) rounds by    *)
(*     the binary value, which lies on either side: the direction is a     *)
(*     choice made per participant when the balances are built;            *)
(*   - the Phase A test |c + d| < 0.01 on two freshly rounded balances one *)
(*     cent apart is decided by DriftPairs, tabulated from IEEE-754;       *)
(*   - the Phase B test |balance| < 0.01 on a balance that is the result   *)
(*     of earlier subtractions and is exactly one cent is a choice.        *)
(***************************************************************************)
EXTENDS Integers, Sequences, FiniteSets, TLC

VARIABLES people, nameInput, amountInput, error, clock,
          pc, run, balances, debtors, creditors, result, i, j, pairwise

vars == <<people, nameInput, amountInput, error, clock,
          pc, run, balances, debtors, creditors, result, i, j, pairwise>>

uiVars == <<nameInput, amountInput, error, clock>>

memoVars == <<pc, run, balances, debtors, creditors, result, i, j, pairwise>>

(* ------------------------------ bounds --------------------------------- *)

\* largest participant list the settlement is run on
MaxPeople == 4

\* largest paid amount, in cents, of the enumerated participant lists
MaxPaid == 5

\* last millisecond of the form's clock
MaxClock == 1

(* ------------------------------ helpers -------------------------------- *)

Abs(x) == IF x < 0 THEN -x ELSE x

Min(a, b) == IF a < b THEN a ELSE b

\* Array.prototype.filter
RECURSIVE SelectIdx(_, _)
SelectIdx(s, keep) ==
  IF s = << >> THEN << >>
  ELSE IF Head(s) \in keep THEN <<Head(s)>> \o SelectIdx(Tail(s), keep)
       ELSE SelectIdx(Tail(s), keep)

\* splice left out: the matched entry stays in its working list
SpliceNothing(s, k) == s

\* Array.prototype.splice(k, 1) with k counted from 1
Splice(s, k) == [n \in 1..(Len(s) - 1) |-> IF n < k THEN s[n] ELSE s[n + 1]]

Letters == <<"a", "b", "c", "d", "e", "f", "g", "h">>

NameOf(k) == <<Letters[k]>>

\* people.reduce((sum, p) => sum + p.paid, 0)
RECURSIVE total(_)
total(ps) == IF ps = << >> THEN 0 ELSE ps[1].paid + total(Tail(ps))

(* Number(x.toFixed(2)) of the value num/den cents: the nearest whole cent; *)
(* on a decimal tie the binary value decides, away tells on which side it   *)
(* lies.  -0.00 becomes -0, which is neither < 0 nor > 0.                   *)
Round2(num, den, away) ==
  LET a   == Abs(num)
      lo  == a \div den
      r2  == 2 * (a % den)
      mag == IF r2 > den THEN lo + 1
             ELSE IF r2 < den THEN lo
             ELSE IF away THEN lo + 1 ELSE lo
  IN IF num < 0 THEN -mag ELSE mag

IsTie(num, den) == 2 * (Abs(num) % den) = den

(* p.paid - avg, with avg = total / people.length, as the fraction          *)
(* ResidualNum / Len(people) of a cent                                      *)
ResidualNum(ps, k) == Len(ps) * ps[k].paid - total(ps)

TieIdx(ps) == {k \in 1..Len(ps) : IsTie(ResidualNum(ps, k), Len(ps))}

\* people.map(p => ({id, name, balance: Number((p.paid - avg).toFixed(2))}))
MapBalances(ps, away) ==
  [k \in 1..Len(ps) |->
     [id |-> ps[k].id, name |-> ps[k].name,
      balance |-> Round2(ResidualNum(ps, k), Len(ps),
                         IF k \in DOMAIN away THEN away[k] ELSE TRUE)]]

\* filter with <= instead of <: a zero balance counts as a debtor
FilterDebtorsZero(bs) ==
  SelectIdx([k \in 1..Len(bs) |-> k], {k \in 1..Len(bs) : bs[k].balance <= 0})

\* the debtors collected from the end of the list to its start
FilterDebtorsReversed(bs) ==
  LET ds == SelectIdx([k \in 1..Len(bs) |-> k], {k \in 1..Len(bs) : bs[k].balance < 0})
  IN [n \in 1..Len(ds) |-> ds[Len(ds) + 1 - n]]

\* balances.filter(p => p.balance < 0): the same objects, in list order
FilterDebtors(bs) ==
  SelectIdx([k \in 1..Len(bs) |-> k], {k \in 1..Len(bs) : bs[k].balance < 0})

\* filter with >= instead of >: a zero balance counts as a creditor
FilterCreditorsZero(bs) ==
  SelectIdx([k \in 1..Len(bs) |-> k], {k \in 1..Len(bs) : bs[k].balance >= 0})

\* balances.filter(p => p.balance > 0)
FilterCreditors(bs) ==
  SelectIdx([k \in 1..Len(bs) |-> k], {k \in 1..Len(bs) : bs[k].balance > 0})

(* The cent values m, up to 39, for which the double nearest m/100 minus    *)
(* the double nearest (m-1)/100 is below the double 0.01 (IEEE-754 binary64,*)
(* round to nearest even); for every other m in 1..39 the difference is     *)
(* at least 0.01.                                                           *)
DriftPairs == {3, 6, 8, 9, 11, 12, 15, 18, 21, 24, 29, 35}

\* Math.abs(c.balance + d.balance) < 0.01 on two freshly rounded balances
NearCancel(c, d) ==
  \/ c + d = 0
  \/ Abs(c + d) = 1 /\ (IF c > -d THEN c ELSE -d) \in DriftPairs

\* the last cancelling creditor taken instead of the first
FindTargetLast(cs, bs, d) ==
  LET hits == {n \in 1..Len(cs) : NearCancel(bs[cs[n]].balance, d)}
  IN IF hits = {} THEN 0 ELSE CHOOSE n \in hits : \A m \in hits : n >= m

\* creditors.find(...): position of the first creditor cancelling d, 0 if none
FindTarget(cs, bs, d) ==
  LET hits == {n \in 1..Len(cs) : NearCancel(bs[cs[n]].balance, d)}
  IN IF hits = {} THEN 0 ELSE CHOOSE n \in hits : \A m \in hits : n <= m

\* creditors.findIndex(c => c.id === target.id), 0 for -1
FindIndexById(cs, bs, id) ==
  LET hits == {n \in 1..Len(cs) : bs[cs[n]].id = id}
  IN IF hits = {} THEN 0 ELSE CHOOSE n \in hits : \A m \in hits : n <= m

\* one cent moved per iteration instead of the smaller of the two balances
PayCent(d, c) == 1

\* Math.min(-debtors[i].balance, creditors[j].balance)
Pay(d, c) == Min(-d, c)

\* Math.abs(balance) < 0.01 on a balance that earlier subtractions produced
Settled(b, below) == b = 0 \/ (Abs(b) = 1 /\ below)

\* payer and payee exchanged
TransferReversed(from, to, amount) ==
  [fromId |-> to.id, fromName |-> to.name,
   toId |-> from.id, toName |-> from.name, amount |-> amount]

Transfer(from, to, amount) ==
  [fromId |-> from.id, fromName |-> from.name,
   toId |-> to.id, toName |-> to.name, amount |-> amount]

(* perPersonTotals: map.get(s.fromId).out += s.amount, .in likewise *)
RECURSIVE totalOutgoing(_, _)
totalOutgoing(rs, id) ==
  IF rs = << >> THEN 0
  ELSE (IF rs[1].fromId = id THEN rs[1].amount ELSE 0) + totalOutgoing(Tail(rs), id)

RECURSIVE totalIncoming(_, _)
totalIncoming(rs, id) ==
  IF rs = << >> THEN 0
  ELSE (IF rs[1].toId = id THEN rs[1].amount ELSE 0) + totalIncoming(Tail(rs), id)

(* --------------------------- the settlement ---------------------------- *)

\* the participant lists the settlement is enumerated on: ids 1..n in order
Inputs ==
  UNION {{[k \in 1..n |-> [id |-> k, name |-> NameOf(k), paid |-> f[k]]] :
            f \in [1..n -> 0..MaxPaid]} : n \in 0..MaxPeople}

\* loadExample's list (30, 90, 0) in cents
ExamplePeople ==
  <<[id |-> 1, name |-> <<"a">>, paid |-> 3000],
    [id |-> 2, name |-> <<"b">>, paid |-> 9000],
    [id |-> 3, name |-> <<"c">>, paid |-> 0]>>

Init ==
  /\ people \in Inputs \cup {ExamplePeople}
  /\ nameInput = << >>
  /\ amountInput = ""
  /\ error = ""
  /\ clock = 0
  /\ pc = "start"
  /\ run = 1
  /\ balances = << >>
  /\ debtors = << >>
  /\ creditors = << >>
  /\ result = << >>
  /\ i = 0
  /\ j = 0
  /\ pairwise = << >>

\* if (people.length < 2) return []
ReturnEmpty ==
  /\ pc = "start"
  /\ Len(people) < 2
  /\ result' = << >>
  /\ pc' = "done"
  /\ UNCHANGED <<people, uiVars, pairwise, run, balances, debtors, creditors, i, j>>

\* the balance written into the participant objects instead of fresh records
StartInPlace ==
  /\ pc = "start"
  /\ Len(people) >= 2
  /\ \E away \in [TieIdx(people) -> BOOLEAN] :
       /\ balances' = MapBalances(people, away)
       /\ people' = [k \in 1..Len(people) |->
                       [people[k] EXCEPT !.paid = balances'[k].balance]]
       /\ debtors' = FilterDebtors(balances')
       /\ creditors' = FilterCreditors(balances')
       /\ i' = Len(debtors')
  /\ result' = << >>
  /\ j' = 0
  /\ pc' = "phaseA"
  /\ UNCHANGED <<uiVars, pairwise, run>>

\* balances, debtors, creditors, result = []; enter the Phase A loop
Start ==
  /\ pc = "start"
  /\ Len(people) >= 2
  /\ \E away \in [TieIdx(people) -> BOOLEAN] :
       /\ balances' = MapBalances(people, away)
       /\ debtors' = FilterDebtors(balances')
       /\ creditors' = FilterCreditors(balances')
       /\ i' = Len(debtors')
  /\ result' = << >>
  /\ j' = 0
  /\ pc' = "phaseA"
  /\ UNCHANGED <<people, uiVars, pairwise, run>>

\* Phase A iteration whose debtor has a cancelling creditor
PhaseAMatch ==
  /\ pc = "phaseA"
  /\ i >= 1
  /\ LET d == debtors[i]
         t == FindTarget(creditors, balances, balances[d].balance)
     IN /\ t # 0
        /\ LET target == creditors[t]
               idx    == FindIndexById(creditors, balances, balances[target].id)
           IN /\ result' = Append(result,
                    Transfer(balances[d], balances[target], Abs(balances[d].balance)))
              /\ balances' = [balances EXCEPT ![d].balance = 0, ![target].balance = 0]
              /\ debtors' = Splice(debtors, i)
              /\ creditors' = IF idx # 0 THEN Splice(creditors, idx) ELSE creditors
  /\ i' = i - 1
  /\ UNCHANGED <<people, uiVars, pairwise, pc, run, j>>

\* Phase A iteration whose debtor has no cancelling creditor
PhaseANoMatch ==
  /\ pc = "phaseA"
  /\ i >= 1
  /\ FindTarget(creditors, balances, balances[debtors[i]].balance) = 0
  /\ i' = i - 1
  /\ UNCHANGED <<people, uiVars, pairwise, pc, run, balances, debtors, creditors, result, j>>

\* the Phase A loop ends; let i = 0, j = 0
PhaseAExit ==
  /\ pc = "phaseA"
  /\ i < 1
  /\ i' = 1
  /\ j' = 1
  /\ pc' = "phaseB"
  /\ UNCHANGED <<people, uiVars, pairwise, run, balances, debtors, creditors, result>>

\* one iteration of the waterfall loop
PhaseBStep ==
  /\ pc = "phaseB"
  /\ i <= Len(debtors) /\ j <= Len(creditors)
  /\ LET d    == debtors[i]
         c    == creditors[j]
         pay  == Pay(balances[d].balance, balances[c].balance)
         newD == balances[d].balance + pay
         newC == balances[c].balance - pay
     IN /\ result' = Append(result,
                 Transfer(balances[d], balances[c], Round2(pay, 1, TRUE)))
        /\ balances' = [balances EXCEPT ![d].balance = newD, ![c].balance = newC]
        /\ \E below \in (IF Abs(newD) = 1 \/ Abs(newC) = 1 THEN BOOLEAN ELSE {FALSE}) :
             /\ i' = IF Settled(newD, below) THEN i + 1 ELSE i
             /\ j' = IF Settled(newC, below) THEN j + 1 ELSE j
  /\ UNCHANGED <<people, uiVars, pairwise, pc, run, debtors, creditors>>

\* the waterfall loop ends; return result
PhaseBExit ==
  /\ pc = "phaseB"
  /\ ~(i <= Len(debtors) /\ j <= Len(creditors))
  /\ pc' = "done"
  /\ UNCHANGED <<people, uiVars, pairwise, run, balances, debtors, creditors, result, i, j>>

(* The caller applies every transfer to the paid amounts (the sender has    *)
(* now paid more, the receiver less) and the memo recomputes on the new list *)
Resettle ==
  /\ pc = "done"
  /\ run = 1
  /\ people' = [k \in 1..Len(people) |->
                  [people[k] EXCEPT !.paid = @ + totalOutgoing(result, people[k].id)
                                               - totalIncoming(result, people[k].id)]]
  /\ run' = 2
  /\ pc' = "start"
  /\ result' = << >>
  /\ balances' = << >>
  /\ debtors' = << >>
  /\ creditors' = << >>
  /\ i' = 0
  /\ j' = 0
  /\ UNCHANGED <<uiVars, pairwise>>

Next ==
  \/ ReturnEmpty
  \/ Start
  \/ PhaseAMatch
  \/ PhaseANoMatch
  \/ PhaseAExit
  \/ PhaseBStep
  \/ PhaseBExit
  \/ Resettle

Spec == Init /\ [][Next]_vars

\* the steps of one call of the memo, which runs to completion once entered
Engine ==
  \/ ReturnEmpty
  \/ Start
  \/ PhaseAMatch
  \/ PhaseANoMatch
  \/ PhaseAExit
  \/ PhaseBStep
  \/ PhaseBExit

\* synchronous code: a call that has been entered keeps taking its next step
FairSpec == Spec /\ WF_vars(Engine)

(* ---------------- the pairwise-netting revision ---------------- *)

(* the double loop over i and j from its cell m on (row-major, n cells a    *)
(* row): one transfer i -> j whenever net = (paid_j - paid_i) / n exceeds    *)
(* eps = 0.005, that is half a cent; amount is Number(net.toFixed(2))        *)
RECURSIVE PairwiseFrom(_, _)
PairwiseFrom(ps, m) ==
  LET n   == Len(ps)
      pi  == ((m - 1) \div n) + 1
      pj  == ((m - 1) % n) + 1
      net == ps[pj].paid - ps[pi].paid
  IN IF m > n * n THEN << >>
     ELSE IF pi # pj /\ 2 * net > n
          THEN <<Transfer(ps[pi], ps[pj], Round2(net, n, TRUE))>> \o PairwiseFrom(ps, m + 1)
          ELSE PairwiseFrom(ps, m + 1)

\* if (n <= 1) return []; otherwise the double loop
PairwiseSettlements(ps) == IF Len(ps) <= 1 THEN << >> ELSE PairwiseFrom(ps, 1)

\* the memo of the pairwise revision evaluated on the same list
settlementsPairwise ==
  /\ pairwise' = PairwiseSettlements(people)
  /\ UNCHANGED <<people, uiVars, pc, run, balances, debtors, creditors, result, i, j>>

\* outgoing - incoming of the pairwise revision's perPersonTotals, each toFixed(2)
NetPairwise(k) ==
  Round2(totalOutgoing(pairwise, people[k].id), 1, TRUE)
    - Round2(totalIncoming(pairwise, people[k].id), 1, TRUE)

(* lists whose paid amounts are all multiples of the participant count, so  *)
(* that every pairwise difference is a multiple of n cents                  *)
InputsEven ==
  {[k \in 1..Len(ps) |-> [ps[k] EXCEPT !.paid = Len(ps) * @]] : ps \in Inputs}

InitEven ==
  /\ people \in InputsEven
  /\ nameInput = << >>
  /\ amountInput = ""
  /\ error = ""
  /\ clock = 0
  /\ pc = "start"
  /\ run = 1
  /\ balances = << >>
  /\ debtors = << >>
  /\ creditors = << >>
  /\ result = << >>
  /\ i = 0
  /\ j = 0
  /\ pairwise = << >>

NextEven ==
  \/ ReturnEmpty
  \/ Start
  \/ PhaseAMatch
  \/ PhaseANoMatch
  \/ PhaseAExit
  \/ PhaseBStep
  \/ PhaseBExit
  \/ settlementsPairwise

\* both revisions run on one list of the pairwise-even kind
SpecEven == InitEven /\ [][NextEven]_vars

(* ------------------------------ the form ------------------------------- *)

\* String.prototype.trim on a name given as a sequence of characters
RECURSIVE TrimLeft(_)
TrimLeft(s) == IF s # << >> /\ Head(s) = " " THEN TrimLeft(Tail(s)) ELSE s

RECURSIVE TrimRight(_)
TrimRight(s) ==
  IF s # << >> /\ s[Len(s)] = " " THEN TrimRight(SubSeq(s, 1, Len(s) - 1)) ELSE s

Trim(s) == TrimRight(TrimLeft(s))

\* what the user can type into the name field
NameInputs == {<< >>, <<" ">>, <<" ", "a", " ">>, <<"d">>}

\* what the amount field can hold
AmountInputs == {"", "abc", "-5", "30"}

\* the value standing for NaN, outside every amount of cents
NaN == -999999999

\* Number(amountInput), in cents
NumberOf(s) ==
  CASE s = ""      -> 0
    [] s = "abc"   -> NaN
    [] s = "-5"    -> -500
    [] s = "30"    -> 3000

IsNaN(x) == x = NaN

\* the paid < 0 test left out
InvalidAmountNaNOnly(paid) == IsNaN(paid)

\* isNaN(paid) || paid < 0; every comparison with NaN is false
InvalidAmount(paid) == IsNaN(paid) \/ (~IsNaN(paid) /\ paid < 0)

\* people.some((p) => p.name === name)
NameTaken(ps, name) == \E k \in 1..Len(ps) : ps[k].name = name

\* Date.now() at the form's clock tick t; far above loadExample's ids 1, 2, 3
Now(t) == 1000000 + t

InitUI ==
  /\ people = << >>
  /\ nameInput = << >>
  /\ amountInput = ""
  /\ error = ""
  /\ clock = 0
  /\ pc = "start"
  /\ run = 1
  /\ balances = << >>
  /\ debtors = << >>
  /\ creditors = << >>
  /\ result = << >>
  /\ i = 0
  /\ j = 0
  /\ pairwise = << >>

\* onChange of the name field
setNameInput ==
  /\ \E v \in NameInputs : nameInput' = v
  /\ UNCHANGED <<people, amountInput, error, clock, memoVars>>

\* onChange of the amount field
setAmountInput ==
  /\ \E v \in AmountInputs : amountInput' = v
  /\ UNCHANGED <<people, nameInput, error, clock, memoVars>>

\* a millisecond passes
Tick ==
  /\ clock < MaxClock
  /\ clock' = clock + 1
  /\ UNCHANGED <<people, nameInput, amountInput, error, memoVars>>

addPerson ==
  LET name == Trim(nameInput)
      paid == NumberOf(amountInput)
  IN /\ IF name = << >>
          THEN /\ error' = "name must not be empty"
               /\ UNCHANGED <<people, nameInput, amountInput>>
        ELSE IF NameTaken(people, name)
          THEN /\ error' = "name must not repeat"
               /\ UNCHANGED <<people, nameInput, amountInput>>
        ELSE IF InvalidAmount(paid)
          THEN /\ error' = "amount must be a number >= 0"
               /\ UNCHANGED <<people, nameInput, amountInput>>
        ELSE /\ error' = ""
             /\ people' = Append(people, [id |-> Now(clock), name |-> name, paid |-> paid])
             /\ nameInput' = << >>
             /\ amountInput' = ""
     /\ UNCHANGED <<clock, memoVars>>

\* prev.filter((p) => p.id !== id)
removePerson ==
  /\ \E id \in {people[k].id : k \in 1..Len(people)} :
       people' = SelectSeq(people, LAMBDA p : p.id # id)
  /\ UNCHANGED <<uiVars, memoVars>>

loadExample ==
  /\ people' = ExamplePeople
  /\ UNCHANGED <<uiVars, memoVars>>

resetAll ==
  /\ people' = << >>
  /\ error' = ""
  /\ UNCHANGED <<nameInput, amountInput, clock, memoVars>>

NextUI ==
  \/ setNameInput
  \/ setAmountInput
  \/ Tick
  \/ addPerson
  \/ removePerson
  \/ loadExample
  \/ resetAll

SpecUI == InitUI /\ [][NextUI]_vars

(* ------------------------------ properties ----------------------------- *)

N == Len(people)

\* what participant k sends minus what k receives, in cents
Net(k) == totalOutgoing(result, people[k].id) - totalIncoming(result, people[k].id)

\* id takes part in some transfer of rs
Appears(rs, id) == \E t \in 1..Len(rs) : rs[t].fromId = id \/ rs[t].toId = id

(* C1: when the settlement has returned, every participant is settled:     *)
(* (paid - fairShare) + sent - received is within 0.01 of zero.  The        *)
(* residual is ResidualNum / N of a cent, so one cent is N units.           *)
C1_EverySettled ==
  pc = "done" => \A k \in 1..N : Abs(ResidualNum(people, k) + N * Net(k)) <= N

C3_Bounded == N >= 1 => Len(result) <= N - 1

\* a list of four settled with three transfers
C3_Witness == pc = "done" /\ N = 4 /\ Len(result) = 3

(* C4: every transfer has amount > 0 and fromId # toId *)
C4_PositiveNoSelf ==
  \A t \in 1..Len(result) : result[t].amount > 0 /\ result[t].fromId # result[t].toId

\* both loops have emitted, down to a transfer of a single cent
C4_Witness ==
  /\ pc = "done"
  /\ Len(result) >= 2
  /\ \E t \in 1..Len(result) : result[t].amount = 1

(* C5: after the transfers are applied to the paid amounts, the second run  *)
(* of the settlement returns an empty list.                                  *)
C5_SecondRunEmpty == (run = 2 /\ pc = "done") => result = << >>

(* C6: zero or one participant, or everyone having paid the same, gives an  *)
(* empty list; and a participant whose rounded residual is 0 never appears  *)
(* in a transfer: a balance object that is 0 while its participant is in no *)
(* transfer was rounded to 0 (the loops change a balance only together with *)
(* a transfer of that participant), and the step does not add it.           *)
C6_EmptyCases ==
  pc = "done" =>
    ((N < 2 \/ \A k, m \in 1..N : people[k].paid = people[m].paid) => result = << >>)

C6_ZeroStaysOut ==
  \A k \in 1..Len(balances) :
    (balances[k].balance = 0 /\ ~Appears(result, balances[k].id))
      => ~Appears(result', balances[k].id)

C6_NothingToSettle == [](C6_EmptyCases) /\ [][C6_ZeroStaysOut]_vars

\* somebody paid exactly the fair share while the others settled
C6_Witness ==
  /\ pc = "done"
  /\ result # << >>
  /\ \E k \in 1..N : ResidualNum(people, k) = 0 /\ ~Appears(result, people[k].id)

(* C7: with a total that splits into whole cents and exactly one creditor,  *)
(* there is exactly one transfer per debtor, for that debtor's owed amount, *)
(* to the creditor, and no other transfer.                                   *)
C7_OnePerDebtor ==
  LET owing == {k \in 1..N : ResidualNum(people, k) < 0}
      owed  == {k \in 1..N : ResidualNum(people, k) > 0}
  IN (pc = "done" /\ N >= 2 /\ total(people) % N = 0 /\ Cardinality(owed) = 1) =>
       /\ Len(result) = Cardinality(owing)
       /\ \A k \in owing :
            \E t \in 1..Len(result) :
              /\ result[t].fromId = people[k].id
              /\ \A c \in owed : result[t].toId = people[c].id
              /\ result[t].amount * N = -ResidualNum(people, k)

(* C8: the settlement never changes the participant list *)
C8_InputUntouched ==
  [][(pc \in {"start", "phaseA", "phaseB"}) => (people' = people)]_vars

\* loadExample's list settled: Phase B has updated balances and emitted twice
C8_Witness ==
  /\ pc = "done"
  /\ people = ExamplePeople
  /\ Len(result) = 2
  /\ \A k \in 1..Len(balances) : balances[k].balance = 0

(* C9: every participant of the form's list has a non-empty name, no two    *)
(* share a name, every paid amount is a number >= 0; and addPerson on an    *)
(* empty name, a taken name, or a negative or not-a-number amount leaves    *)
(* the list unchanged and sets an error message.                            *)
C9_ListValid ==
  /\ \A k \in 1..N :
       /\ people[k].name # << >>
       /\ people[k].paid # NaN
       /\ people[k].paid >= 0
  /\ \A k, m \in 1..N : k # m => people[k].name # people[m].name

C9_BadInput ==
  \/ Trim(nameInput) = << >>
  \/ \E k \in 1..N : people[k].name = Trim(nameInput)
  \/ NumberOf(amountInput) = NaN
  \/ NumberOf(amountInput) < 0

C9_Rejects == (addPerson /\ C9_BadInput) => (people' = people /\ error' # "")

C9_Validated == [](C9_ListValid) /\ [][C9_Rejects]_vars

\* a typed participant next to others, and a rejected duplicate
C9_Witness ==
  /\ N >= 2
  /\ \E k \in 1..N : people[k].id >= Now(0)
  /\ error = "name must not repeat"

(* C10: when the waterfall loop has ended no debtor and no creditor at or   *)
(* beyond the pointers has a balance of magnitude >= 0.01.                   *)
C10_BothExhausted ==
  (pc = "done" /\ N >= 2) =>
    /\ \A k \in i..Len(debtors) : Abs(balances[debtors[k]].balance) < 1
    /\ \A k \in j..Len(creditors) : Abs(balances[creditors[k]].balance) < 1

\* the balance objects held by a working list
Held(list) == {list[k] : k \in 1..Len(list)}

\* how many transfers of rs the participant id takes part in
RECURSIVE Involved(_, _)
Involved(rs, id) ==
  IF rs = << >> THEN 0
  ELSE (IF rs[1].fromId = id \/ rs[1].toId = id THEN 1 ELSE 0) + Involved(Tail(rs), id)

(* C11: Phase A scans the debtors from the last to the first; a debtor for *)
(* which some creditor of the working list cancels it (|c + d| < 0.01)      *)
(* emits exactly one transfer, to the first such creditor in list order,    *)
(* for |d.residual|, and both leave their working lists; a debtor without   *)
(* a cancelling creditor emits nothing; and a participant that has left the *)
(* working lists takes part in no later transfer.                           *)
C11_ScanStep ==
  (pc = "phaseA" /\ pc' = "phaseA") =>
    LET d       == debtors[i]
        cancels == {n \in 1..Len(creditors) :
                      NearCancel(balances[creditors[n]].balance, balances[d].balance)}
    IN /\ i' = i - 1
       /\ cancels = {} => (result' = result /\ debtors' = debtors /\ creditors' = creditors)
       /\ cancels # {} =>
            \E n \in cancels :
              /\ \A m \in cancels : n <= m
              /\ result' = Append(result,
                   [fromId |-> balances[d].id, fromName |-> balances[d].name,
                    toId |-> balances[creditors[n]].id,
                    toName |-> balances[creditors[n]].name,
                    amount |-> Abs(balances[d].balance)])
              /\ Held(debtors') = Held(debtors) \ {d}
              /\ Held(creditors') = Held(creditors) \ {creditors[n]}

C11_ScanStart == (pc = "start" /\ pc' = "phaseA") => i' = Len(debtors')

C11_RemovedStayOut ==
  (pc \in {"phaseA", "phaseB"}) =>
    \A k \in 1..Len(balances) :
      (Involved(result, balances[k].id) > 0 /\ k \notin Held(debtors) \cup Held(creditors))
        => Involved(result', balances[k].id) = Involved(result, balances[k].id)

Emitting == pc = "phaseB" /\ i <= Len(debtors) /\ j <= Len(creditors)

(* C12 as stated: whenever Phase B emits a transfer from debtor d, no other *)
(* debtor that is still unsettled owes a strictly larger amount than d      *)
C12_LargestFirst ==
  Emitting =>
    \A k \in 1..Len(debtors) :
      (k # i /\ balances[debtors[k]].balance < 0)
        => -balances[debtors[k]].balance <= -balances[debtors[i]].balance

(* C12 amended: the debtor matched at each step of Phase B is the first     *)
(* remaining debtor in participant-list order: the transfer is sent by      *)
(* debtors[i], every debtor the pointer has passed is within a cent of zero, *)
(* and every debtor behind the pointer comes later in the participant list  *)
(* and has sent nothing so far                                              *)
C12_FirstInListOrder ==
  [][Emitting =>
       /\ Len(result') = Len(result) + 1
       /\ result'[Len(result')].fromId = balances[debtors[i]].id
       /\ \A k \in 1..(i - 1) : Abs(balances[debtors[k]].balance) <= 1
       /\ \A k \in (i + 1)..Len(debtors) :
            /\ debtors[k] > debtors[i]
            /\ Involved(result, balances[debtors[k]].id) = 0]_vars

\* Phase B has emitted from a debtor while a later debtor owed strictly more
C12_Witness ==
  /\ pc = "phaseB" /\ Len(result) >= 1
  /\ \E k \in 1..Len(debtors) :
       /\ k <= i
       /\ result[Len(result)].fromId = balances[debtors[k]].id
       /\ \E m \in (k + 1)..Len(debtors) :
            -balances[debtors[m]].balance >
              result[Len(result)].amount - balances[debtors[k]].balance

\* iterations of the waterfall loop so far: a Phase B sender stays in debtors
PhaseBCount ==
  Cardinality({n \in 1..Len(result) :
                 \E k \in Held(debtors) : balances[k].id = result[n].fromId})

(* C13 as stated: Phase B performs at most (remaining debtors + remaining   *)
(* creditors - 1) iterations                                                *)
C13_IterationsAsStated ==
  (pc = "done") => PhaseBCount <= Len(debtors) + Len(creditors) - 1

\* each Phase B iteration emits and advances i, j or both, never backwards
C13_PhaseBAdvances ==
  (pc = "phaseB" /\ pc' = "phaseB") =>
    /\ PhaseBCount' = PhaseBCount + 1
    /\ i' >= i /\ j' >= j
    /\ i' > i \/ j' > j

\* Phase A starts at the last debtor, handles one debtor per iteration, ends past the first
C13_PhaseAOnePerDebtor ==
  /\ (pc = "start" /\ pc' = "phaseA") => i' = Len(debtors')
  /\ (pc = "phaseA" /\ pc' = "phaseA") => (i >= 1 /\ i <= Len(debtors) /\ i' = i - 1)
  /\ (pc = "phaseA" /\ pc' = "phaseB") => i = 0

\* at most debtors + creditors - 1 iterations, none when a list is empty
C13_IterationBound ==
  (pc \in {"phaseB", "done"}) =>
    PhaseBCount <= (IF debtors = << >> \/ creditors = << >> THEN 0
                    ELSE Len(debtors) + Len(creditors) - 1)

(* C13 amended: every call terminates; each Phase B iteration advances at   *)
(* least one of the pointers i and j, so Phase B performs at most (remaining *)
(* debtors + remaining creditors - 1) iterations when both lists are        *)
(* non-empty and none otherwise; Phase A performs one iteration per debtor  *)
C13_Terminates ==
  /\ (pc = "start") ~> (pc = "done")
  /\ [][C13_PhaseBAdvances /\ C13_PhaseAOnePerDebtor]_vars
  /\ [](C13_IterationBound)

\* a finished call whose waterfall loop ran the full bound after a Phase A scan
C13_Witness ==
  /\ pc = "done"
  /\ Len(debtors) + Len(creditors) >= 3
  /\ PhaseBCount = Len(debtors) + Len(creditors) - 1

(* the rounded residual of participant k, Number((paid - avg).toFixed(2)),  *)
(* taking the larger magnitude where the rounding is a decimal tie          *)
Rounded(k) == Round2(ResidualNum(people, k), N, TRUE)

(* C14: every transfer goes from a participant with negative rounded        *)
(* residual to one with positive rounded residual, no participant both      *)
(* sends and receives, and nobody sends more than the amount they owe or    *)
(* receives more than the amount they are owed                              *)
C14_NoOverpay ==
  (run = 1 /\ pc \in {"phaseA", "phaseB", "done"}) =>
    /\ \A n \in 1..Len(result) :
         \E f, t \in 1..N :
           /\ people[f].id = result[n].fromId /\ Rounded(f) < 0
           /\ people[t].id = result[n].toId /\ Rounded(t) > 0
    /\ \A k \in 1..N :
         /\ totalOutgoing(result, people[k].id) = 0 \/ totalIncoming(result, people[k].id) = 0
         /\ Rounded(k) < 0 => totalOutgoing(result, people[k].id) <= -Rounded(k)
         /\ Rounded(k) > 0 => totalIncoming(result, people[k].id) <= Rounded(k)

(* C15: on a list whose paid amounts differ pairwise by multiples of n      *)
(* cents, the pairwise-netting revision and the exact-match + waterfall     *)
(* revision give every participant the same total sent - total received,    *)
(* and it equals fairShare - paid                                           *)
C15_SameNetPosition ==
  (pc = "done" /\ pairwise = PairwiseSettlements(people)) =>
    \A k \in 1..N :
      /\ N * NetPairwise(k) = total(people) - N * people[k].paid
      /\ Net(k) = NetPairwise(k)

====
